---- MODULE Spec2Model ----
(***************************************************************************)
(* Model of the snack price service (src/snack_service.py): a facade of    *)
(* tools over a relational store with the tables shops, brands,            *)
(* categories, snacks and prices.  Every tool call opens its own           *)
(* connection, runs its statements in one transaction, commits or rolls    *)
(* back, and closes the connection.                                        *)
(*                                                                         *)
(* The store is modelled by its committed tables (db) and, per connection, *)
(* the uncommitted writes of its transaction (tx).  A tool call is a       *)
(* sequence of steps of one process; pc is the position in the handler.    *)
(* A call ends at pc = "done" with either a returned result or a raised    *)
(* exception (exc), and Return hands control back to the caller.           *)
(*                                                                         *)
(* Columns that no statement of the service constrains or filters on       *)
(* (phone, description, barcode, discount_price, valid_period) are left    *)
(* out of the rows.                                                        *)
(***************************************************************************)
EXTENDS Integers, Sequences, FiniteSets, TLC

VARIABLES
    db,       \* the committed rows of the five tables
    now,      \* the store's clock (created_at / updated_at defaults); it stands
              \* still during the runs checked here
    tx,       \* per process: the uncommitted writes of its connection
    nOpen,    \* connections currently open at the store
    pc,       \* per process: position in the tool handler
    tool,     \* per process: the tool being called
    args,     \* per process: the keyword arguments of the call
    conn,     \* per process: the handler's local `conn`: "none", "open", "closed"
    opened,   \* per process: connections this call has opened
    stmts,    \* per process: statements this call has sent to the store
    cursor,   \* per process: rowcount / description / row of the last statement
    local,    \* per process: handler locals (brand_id, category_id, rows sent) and what
              \* went wrong in the call: "connect", "cancel", "constraint", "other"
    result,   \* per process: the value the call returned
    exc,      \* per process: the exception in flight / raised to the caller
    pre       \* per process: the committed rows when the call began

vars == <<db, now, tx, nOpen, pc, tool, args, conn, opened, stmts, cursor, local, result, exc, pre>>

(***************************************************************************)
(* Bounds of the model.                                                    *)
(***************************************************************************)
\* Rows of the prices table in the runs of Spec.  (The other tables are bounded
\* by their unique columns and the finite sets of names below.)
MaxPrices == 2
\* Records per add_prices_batch call / ids per batch_delete_prices call in Spec.
MaxBatch == 2
\* Rows of the prices table in the stores of SpecQuery.
MaxQueryRows == 2

\* Rows execute_values sends per statement (its page_size default).
PageSize == 100

Procs == {1, 2}
\* Spec runs the calls one after the other: one caller.
SeqProcs == {1}

\* Python's None, and a present optional value.
None == <<>>
Some(v) == <<v>>

\* Texts are sequences of characters.
ShopNames == {<<"M", "a">>}
Addresses == {<<"x">>}
BrandNames == {<<"l", "a", "y">>, <<"o", "r">>}
CategoryNames == {<<"c">>}
SnackNames == {<<"c", "h">>}
SnackSpecs == {<<"1", "g">>}
Amounts == {5}
\* Identities named by the calls: some that exist at some time, some that never do.
ShopIdArgs == {1, 2}
SnackIdArgs == {1, 2}
PriceIdArgs == 1..MaxPrices

EmptyTables == [shops |-> {}, brands |-> {}, categories |-> {}, snacks |-> {}, prices |-> {}]
NoTx == [ins |-> EmptyTables, del |-> EmptyTables]

NoExc == [cls |-> "none", pgcode |-> "", text |-> ""]
NoResult == [status |-> "none", message |-> "", rows_affected |-> -1, data |-> <<>>]
NoCursor == [description |-> FALSE, row |-> <<>>, rowcount |-> -1]
NoLocal == [brand_id |-> 0, category_id |-> 0, page |-> 0, fault |-> "none"]
NoArgs == [none |-> TRUE]

Ids(rows) == {r.id : r \in rows}

(***************************************************************************)
(* The store.                                                              *)
(***************************************************************************)
\* What a connection sees: the committed rows and its own uncommitted writes.
TableView(committed, t, table) ==
    {r \in committed[table] : r.id \notin t.del[table]} \cup t.ins[table]

View(committed, t) ==
    [shops |-> TableView(committed, t, "shops"),
     brands |-> TableView(committed, t, "brands"),
     categories |-> TableView(committed, t, "categories"),
     snacks |-> TableView(committed, t, "snacks"),
     prices |-> TableView(committed, t, "prices")]

\* The rows of `table` that transactions still open have inserted.  The store
\* hands out identities from a sequence, so a new row never takes the
\* identity of one of these either.
Pending(table) == UNION {tx[q].ins[table] : q \in Procs}

\* An INSERT of `row` by p into a table with the unique columns `key` waits
\* while another open transaction has inserted a row with the same values:
\* the store answers only once that transaction has committed or rolled back.
Waits(p, table, key, row) ==
    \E q \in Procs \ {p} : \E r \in tx[q].ins[table] : \A k \in key : r[k] = row[k]

\* The identity the store gives a new row: one no row of the table uses.
NewId(rows) ==
    CHOOSE i \in 1..(Cardinality(rows) + 1) :
        /\ i \notin Ids(rows)
        /\ \A j \in 1..(i - 1) : j \in Ids(rows)

\* The identities of n new rows, in the order of the rows: the n smallest
\* identities not in use.
NewIds(used, n) ==
    LET c == Cardinality(used)
    IN IF used = 1..c
       THEN [k \in 1..n |-> c + k]
       ELSE [k \in 1..n |->
                CHOOSE i \in 1..(c + n) :
                    i \notin used /\ Cardinality({j \in 1..i : j \notin used}) = k]

\* The outcome of a statement: an error the store reports (pgcode), or the
\* rows it wrote and what the cursor then shows.
StmtError(code, text) ==
    [ok |-> FALSE, pgcode |-> code, text |-> text,
     ins |-> EmptyTables, del |-> EmptyTables, cursor |-> NoCursor]

StmtOk(ins, del, cur) ==
    [ok |-> TRUE, pgcode |-> "", text |-> "", ins |-> ins, del |-> del, cursor |-> cur]

\* The writes of a statement added to those of the transaction.
ApplyStmt(t, out) ==
    LET one(table) == [ins |-> {r \in t.ins[table] : r.id \notin out.del[table]}
                                 \cup out.ins[table],
                       del |-> t.del[table] \cup out.del[table]]
    IN [ins |-> [shops |-> one("shops").ins, brands |-> one("brands").ins,
                 categories |-> one("categories").ins, snacks |-> one("snacks").ins,
                 prices |-> one("prices").ins],
        del |-> [shops |-> one("shops").del, brands |-> one("brands").del,
                 categories |-> one("categories").del, snacks |-> one("snacks").del,
                 prices |-> one("prices").del]]

\* INSERT INTO shops ... RETURNING *: the address is unique.
InsertShop(v, name, address) ==
    IF \E r \in v.shops : r.address = address
    THEN StmtError("23505", "duplicate key value violates unique constraint")
    ELSE LET row == [id |-> NewId(v.shops \cup Pending("shops")), name |-> name, address |-> address]
         IN StmtOk([EmptyTables EXCEPT !.shops = {row}], EmptyTables,
                   [description |-> TRUE, row |-> <<row>>, rowcount |-> 1])

\* brands.name and categories.name are unique.
NameTaken(v, table, name) == \E r \in v[table] : r.name = name

\* SELECT id FROM {table} WHERE name = %(name)s
SelectIdByName(v, table, name) ==
    LET hits == {r \in v[table] : r.name = name}
    IN IF hits = {} THEN StmtOk(EmptyTables, EmptyTables,
                                [description |-> TRUE, row |-> <<>>, rowcount |-> 0])
       ELSE LET r == CHOOSE h \in hits : \A g \in hits : h.id <= g.id
            IN StmtOk(EmptyTables, EmptyTables,
                      [description |-> TRUE, row |-> <<r>>, rowcount |-> Cardinality(hits)])

\* INSERT INTO {table} (name) VALUES (%(name)s) RETURNING id
InsertNamed(v, table, name) ==
    IF NameTaken(v, table, name)
    THEN StmtError("23505", "duplicate key value violates unique constraint")
    ELSE LET row == [id |-> NewId(v[table] \cup Pending(table)), name |-> name]
         IN StmtOk([EmptyTables EXCEPT ![table] = {row}], EmptyTables,
                   [description |-> TRUE, row |-> <<row>>, rowcount |-> 1])

\* INSERT INTO snacks ... RETURNING *: (brand, name, spec) is unique.
InsertSnack(v, name, brand_id, category_id, spec) ==
    IF \E r \in v.snacks : r.brand_id = brand_id /\ r.name = name /\ r.spec = spec
    THEN StmtError("23505", "duplicate key value violates unique constraint")
    ELSE LET row == [id |-> NewId(v.snacks \cup Pending("snacks")), name |-> name, brand_id |-> brand_id,
                     category_id |-> category_id, spec |-> spec]
         IN StmtOk([EmptyTables EXCEPT !.snacks = {row}], EmptyTables,
                   [description |-> TRUE, row |-> <<row>>, rowcount |-> 1])

\* A price row references an existing shop and an existing snack.
PriceRefsOk(v, rec) ==
    /\ rec.shop_id \in Ids(v.shops)
    /\ rec.snack_id \in Ids(v.snacks)

\* INSERT INTO prices ... VALUES <one page of records>, with or without RETURNING.
InsertPrices(v, recs, clock, returning) ==
    IF \E i \in 1..Len(recs) : ~PriceRefsOk(v, recs[i])
    THEN StmtError("23503", "insert or update violates foreign key constraint")
    ELSE LET ids == NewIds(Ids(v.prices \cup Pending("prices")), Len(recs))
             rows == {[id |-> ids[i], shop_id |-> recs[i].shop_id,
                       snack_id |-> recs[i].snack_id, price |-> recs[i].price,
                       created_at |-> clock, updated_at |-> clock] : i \in 1..Len(recs)}
             first == [id |-> ids[1], shop_id |-> recs[1].shop_id,
                       snack_id |-> recs[1].snack_id, price |-> recs[1].price]
         IN StmtOk([EmptyTables EXCEPT !.prices = rows], EmptyTables,
                   [description |-> returning,
                    row |-> IF returning THEN <<first>> ELSE <<>>,
                    rowcount |-> Len(recs)])

\* DELETE FROM prices WHERE id = ANY(ids); no RETURNING.
DeletePrices(v, ids) ==
    LET gone == Ids(v.prices) \cap ids
    IN StmtOk(EmptyTables, [EmptyTables EXCEPT !.prices = gone],
              [description |-> FALSE, row |-> <<>>, rowcount |-> Cardinality(gone)])

\* DELETE FROM snacks / shops WHERE id = ...; the prices of the row go with it.
DeleteParent(v, table, id) ==
    LET gone == Ids(v[table]) \cap {id}
        deps == {r.id : r \in {q \in v.prices :
                    IF table = "shops" THEN q.shop_id \in gone ELSE q.snack_id \in gone}}
    IN StmtOk(EmptyTables, [EmptyTables EXCEPT ![table] = gone, !.prices = deps],
              [description |-> FALSE, row |-> <<>>, rowcount |-> Cardinality(gone)])

(***************************************************************************)
(* Exceptions.  psycopg2.Error is the base of every error the driver       *)
(* raises (OperationalError for a failed connect or a cancelled statement, *)
(* IntegrityError for a violated constraint); Exception is the base of     *)
(* those and of ValueError, KeyError and MemoryError; KeyboardInterrupt is *)
(* a BaseException only.                                                   *)
(***************************************************************************)
ConnectError == [cls |-> "OperationalError", pgcode |-> "", text |-> "could not connect to server"]
StoreFault == StmtError("57014", "canceling statement due to statement timeout")
CommitFault == StmtError("40001", "could not serialize access")

StoreError(out) ==
    [cls |-> IF out.pgcode \in {"23505", "23503"} THEN "IntegrityError" ELSE "OperationalError",
     pgcode |-> out.pgcode, text |-> out.text]

OtherError(cls) == [cls |-> cls, pgcode |-> "", text |-> ""]

\* Mutant: the handlers catch IntegrityError only.
IsPsycopgErrorIntegrityOnly(e) == e.cls = "IntegrityError"

\* `except Error` / `except psycopg2.Error` matches.
IsPsycopgError(e) == e.cls \in {"OperationalError", "IntegrityError"}

\* `except Exception` matches.
IsException(e) == IsPsycopgError(e) \/ e.cls \in {"ValueError", "KeyError", "MemoryError"}

\* What can interrupt a statement besides the store's own answer.
\* add_snack tells an Exception from a BaseException; the other handlers let both pass.
Faults(tl) ==
    IF tl = "add_snack" THEN {"none", "store", "MemoryError", "KeyboardInterrupt"}
    ELSE {"none", "store", "KeyboardInterrupt"}

(***************************************************************************)
(* Handler plumbing.                                                       *)
(***************************************************************************)
CrudTools == {"add_shop", "add_price", "delete_price", "batch_delete_prices",
              "delete_snack", "delete_shop"}
QueryTools == {"query_snack_prices", "get_shop_list", "get_snack_list", "get_snack_categories"}

Idle(p) == pc[p] = "idle"

\* The first step after `conn = self._get_db_connection()`.
AfterConnect(tl) ==
    CASE tl \in CrudTools -> "execute"
      [] tl \in QueryTools -> "query"
      [] tl = "add_snack" -> "brand_select"
      [] tl = "add_prices_batch" -> "page"

\* A tool is called: the handler starts at `pcStart` with everything else fresh.
Begin(p, tl, a, pcStart, res, e) ==
    /\ Idle(p)
    /\ tool' = [tool EXCEPT ![p] = tl]
    /\ args' = [args EXCEPT ![p] = a]
    /\ pc' = [pc EXCEPT ![p] = pcStart]
    /\ result' = [result EXCEPT ![p] = res]
    /\ exc' = [exc EXCEPT ![p] = e]
    /\ pre' = [pre EXCEPT ![p] = db]
    /\ conn' = [conn EXCEPT ![p] = "none"]
    /\ opened' = [opened EXCEPT ![p] = 0]
    /\ stmts' = [stmts EXCEPT ![p] = 0]
    /\ cursor' = [cursor EXCEPT ![p] = NoCursor]
    /\ local' = [local EXCEPT ![p] = NoLocal]
    /\ UNCHANGED <<db, now, tx, nOpen>>

\* An exception leaves the try block: control goes to the except clauses.
Raise(p, e) ==
    /\ exc' = [exc EXCEPT ![p] = e]
    /\ pc' = [pc EXCEPT ![p] = "except"]

\* _get_db_connection inside the handler's try: the store is reachable and the
\* connection opens, or psycopg2.connect raises OperationalError, which
\* _get_db_connection logs and re-raises into the handler's try block.
Connect(p) ==
    /\ pc[p] = "connect"
    /\ \/ /\ conn' = [conn EXCEPT ![p] = "open"]
          /\ opened' = [opened EXCEPT ![p] = @ + 1]
          /\ nOpen' = nOpen + 1
          /\ tx' = [tx EXCEPT ![p] = NoTx]
          /\ pc' = [pc EXCEPT ![p] = AfterConnect(tool[p])]
          /\ UNCHANGED <<exc, local>>
       \/ /\ Raise(p, ConnectError)
          /\ local' = [local EXCEPT ![p].fault = "connect"]
          /\ UNCHANGED <<conn, opened, nOpen, tx>>
    /\ UNCHANGED <<db, now, tool, args, stmts, cursor, result, pre>>

\* Mutant: the rollback is missing.
RollbackMissing(t) == t

\* conn.rollback(): the transaction's writes are dropped.
Rollback(t) == NoTx

\* conn.commit(): the transaction's writes become the committed rows.
Commit(committed, t) == View(committed, t)

\* Mutant: the connection is closed on the return path only.
FinallyOnReturnOnly(p) ==
    /\ pc[p] = "finally"
    /\ IF conn[p] = "open" /\ exc[p] = NoExc
       THEN /\ conn' = [conn EXCEPT ![p] = "closed"]
            /\ nOpen' = nOpen - 1
            /\ tx' = [tx EXCEPT ![p] = NoTx]
       ELSE UNCHANGED <<conn, nOpen, tx>>
    /\ pc' = [pc EXCEPT ![p] = "done"]
    /\ UNCHANGED <<db, now, tool, args, opened, stmts, cursor, local, result, exc, pre>>

\* `finally: if conn: conn.close()`; closing drops what was not committed.
Finally(p) ==
    /\ pc[p] = "finally"
    /\ IF conn[p] = "open"
       THEN /\ conn' = [conn EXCEPT ![p] = "closed"]
            /\ nOpen' = nOpen - 1
            /\ tx' = [tx EXCEPT ![p] = NoTx]
       ELSE UNCHANGED <<conn, nOpen, tx>>
    /\ pc' = [pc EXCEPT ![p] = "done"]
    /\ UNCHANGED <<db, now, tool, args, opened, stmts, cursor, local, result, exc, pre>>

\* The caller has the result (or the exception); the process is free again.
Return(p) ==
    /\ pc[p] = "done"
    /\ pc' = [pc EXCEPT ![p] = "idle"]
    /\ tool' = [tool EXCEPT ![p] = "none"]
    /\ args' = [args EXCEPT ![p] = NoArgs]
    /\ result' = [result EXCEPT ![p] = NoResult]
    /\ exc' = [exc EXCEPT ![p] = NoExc]
    /\ pre' = [pre EXCEPT ![p] = EmptyTables]
    /\ conn' = [conn EXCEPT ![p] = "none"]
    /\ opened' = [opened EXCEPT ![p] = 0]
    /\ stmts' = [stmts EXCEPT ![p] = 0]
    /\ cursor' = [cursor EXCEPT ![p] = NoCursor]
    /\ local' = [local EXCEPT ![p] = NoLocal]
    /\ UNCHANGED <<db, now, tx, nOpen>>

\* One statement sent on the connection: the store answers `out`, or the
\* statement is interrupted (a store-side cancel, or a failure of the process).
\* On success control goes to `pcNext` with the locals `loc`.
Send(p, out, pcNext, loc) ==
    /\ stmts' = [stmts EXCEPT ![p] = @ + 1]
    /\ \E f \in Faults(tool[p]) :
         LET o == IF f = "store" THEN StoreFault ELSE out IN
         IF f \in {"MemoryError", "KeyboardInterrupt"}
         THEN /\ Raise(p, OtherError(f))
              /\ local' = [local EXCEPT ![p].fault = "other"]
              /\ UNCHANGED <<tx, cursor>>
         ELSE IF ~o.ok
         THEN /\ Raise(p, StoreError(o))
              /\ local' = [local EXCEPT ![p].fault = IF f = "store" THEN "cancel" ELSE "constraint"]
              /\ UNCHANGED <<tx, cursor>>
         ELSE /\ tx' = [tx EXCEPT ![p] = ApplyStmt(@, o)]
              /\ cursor' = [cursor EXCEPT ![p] = o.cursor]
              /\ local' = [local EXCEPT ![p] = loc]
              /\ pc' = [pc EXCEPT ![p] = pcNext]
              /\ UNCHANGED exc

\* conn.commit() inside the try: the store commits, or reports an error.
\* Then the handler returns `res`.
CommitAndReturn(p, res) ==
    \E f \in {"none", "store"} :
        IF f = "store"
        THEN /\ Raise(p, StoreError(CommitFault))
             /\ local' = [local EXCEPT ![p].fault = "cancel"]
             /\ UNCHANGED <<db, tx, result>>
        ELSE /\ db' = Commit(db, tx[p])
             /\ tx' = [tx EXCEPT ![p] = NoTx]
             /\ result' = [result EXCEPT ![p] = res]
             /\ pc' = [pc EXCEPT ![p] = "finally"]
             /\ UNCHANGED <<exc, local>>

(***************************************************************************)
(* _execute_crud and the tools built on it.                                *)
(***************************************************************************)
\* Decimal values become text (str), timestamps ISO text (isoformat).
IsoFormat(t) == "T" \o ToString(t)

ProcessRow(row) ==
    [k \in DOMAIN row |->
        IF k = "price" THEN ToString(row[k])
        ELSE IF k \in {"created_at", "updated_at"} THEN IsoFormat(row[k])
        ELSE row[k]]

\* The result _execute_crud returns after a statement that did not fail.
CrudResult(cur) ==
    IF cur.description
    THEN IF cur.row # <<>>
         THEN [status |-> "success", message |-> "", rows_affected |-> -1,
               data |-> <<ProcessRow(cur.row[1])>>]
         ELSE [status |-> "warning",
               message |-> "Operation executed, but no matching record was found.",
               rows_affected |-> -1, data |-> <<>>]
    ELSE [status |-> "success", message |-> "", rows_affected |-> cur.rowcount, data |-> <<>>]

\* The result _execute_crud returns from `except Error`.
CrudErrorResult(e) ==
    [status |-> "error",
     message |-> IF e.pgcode = "23505"
                 THEN "Uniqueness constraint violated: " \o "constraint"
                      \o ". A similar record already exists."
                 ELSE "Operation failed: " \o e.text,
     rows_affected |-> -1, data |-> <<>>]

\* _construct_daterange: fromisoformat raises ValueError on a text that is no
\* ISO date; the start defaults to today, the end stays open.
IsoDates == {"2024-05-01", "2024-06-30"}
StartDates == {None, Some("soon")}
Today(clock) == "day" \o ToString(clock)

ConstructDaterange(start, end, clock) ==
    IF (start # None /\ start[1] \notin IsoDates) \/ (end # None /\ end[1] \notin IsoDates)
    THEN [raised |-> TRUE, text |-> ""]
    ELSE [raised |-> FALSE,
          text |-> "[" \o (IF start # None THEN start[1] ELSE Today(clock)) \o ","
                       \o (IF end # None THEN end[1] ELSE "") \o "]"]

\* The statement each _execute_crud tool sends.
CrudStatement(v, tl, a, clock) ==
    CASE tl = "add_shop" -> InsertShop(v, a.name, a.address)
      [] tl = "add_price" -> InsertPrices(v, <<a>>, clock, TRUE)
      [] tl = "delete_price" -> DeletePrices(v, {a.price_id})
      [] tl = "batch_delete_prices" -> DeletePrices(v, a.price_ids)
      [] tl = "delete_snack" -> DeleteParent(v, "snacks", a.snack_id)
      [] tl = "delete_shop" -> DeleteParent(v, "shops", a.shop_id)

\* cursor.execute(sql, params)
ExecuteCrudExecute(p) ==
    /\ pc[p] = "execute"
    /\ tool[p] \in CrudTools
    /\ Send(p, CrudStatement(View(db, tx[p]), tool[p], args[p], now), "commit", local[p])
    /\ UNCHANGED <<db, now, nOpen, tool, args, conn, opened, result, pre>>

\* fetchone (after a RETURNING statement) or rowcount, conn.commit(), return.
ExecuteCrudCommit(p) ==
    /\ pc[p] = "commit"
    /\ tool[p] \in CrudTools
    /\ CommitAndReturn(p, CrudResult(cursor[p]))
    /\ UNCHANGED <<now, nOpen, tool, args, conn, opened, stmts, cursor, pre>>

\* `except Error as e: if conn: conn.rollback()` and the error result; any
\* other exception passes through to the caller.
ExecuteCrudExcept(p) ==
    /\ pc[p] = "except"
    /\ tool[p] \in CrudTools
    /\ IF IsPsycopgError(exc[p])
       THEN /\ tx' = [tx EXCEPT ![p] = IF conn[p] = "open" THEN Rollback(@) ELSE @]
            /\ result' = [result EXCEPT ![p] = CrudErrorResult(exc[p])]
            /\ exc' = [exc EXCEPT ![p] = NoExc]
       ELSE UNCHANGED <<tx, result, exc>>
    /\ pc' = [pc EXCEPT ![p] = "finally"]
    /\ UNCHANGED <<db, now, nOpen, tool, args, conn, opened, stmts, cursor, local, pre>>

add_shop(p) ==
    /\ \E name \in ShopNames, address \in Addresses :
         Begin(p, "add_shop", [name |-> name, address |-> address], "connect", NoResult, NoExc)

\* _construct_daterange runs before _execute_crud: its ValueError goes to the caller.
add_price(p) ==
    /\ Cardinality(db.prices) < MaxPrices
    /\ \E shop_id \in ShopIdArgs, snack_id \in SnackIdArgs, price \in Amounts, start \in StartDates :
         LET period == ConstructDaterange(start, None, now)
             a == [shop_id |-> shop_id, snack_id |-> snack_id, price |-> price,
                   valid_period |-> period.text]
         IN IF period.raised
            THEN Begin(p, "add_price", a, "done", NoResult, OtherError("ValueError"))
            ELSE Begin(p, "add_price", a, "connect", NoResult, NoExc)

delete_price(p) ==
    \E id \in PriceIdArgs :
        Begin(p, "delete_price", [price_id |-> id], "connect", NoResult, NoExc)

\* Mutant: the empty list is sent to the store like any other.
batch_delete_prices_unguarded(p) ==
    \E ids \in SUBSET (1..MaxBatch) :
        Begin(p, "batch_delete_prices", [price_ids |-> ids], "connect", NoResult, NoExc)

\* `if not price_ids` returns before _execute_crud is called.
batch_delete_prices(p) ==
    \E ids \in SUBSET (1..MaxBatch) :
        IF ids = {}
        THEN Begin(p, "batch_delete_prices", [price_ids |-> ids], "done",
                   [status |-> "warning", message |-> "No price IDs provided.",
                    rows_affected |-> -1, data |-> <<>>], NoExc)
        ELSE Begin(p, "batch_delete_prices", [price_ids |-> ids], "connect", NoResult, NoExc)

delete_snack(p) ==
    \E id \in SnackIdArgs :
        Begin(p, "delete_snack", [snack_id |-> id], "connect", NoResult, NoExc)

delete_shop(p) ==
    \E id \in ShopIdArgs :
        Begin(p, "delete_shop", [shop_id |-> id], "connect", NoResult, NoExc)

(***************************************************************************)
(* add_snack and _get_or_create_id.                                        *)
(***************************************************************************)
\* Mutant: the lookup result is ignored and the row always inserted.
GetOrCreateNeverFound(cur) == FALSE

\* `if result:` after the SELECT of _get_or_create_id.
GetOrCreateFound(cur) == cur.row # <<>>

\* The local that holds the identity of a brands / categories row.
WithId(loc, table, id) ==
    IF table = "brands" THEN [loc EXCEPT !.brand_id = id] ELSE [loc EXCEPT !.category_id = id]

NameArg(a, table) == IF table = "brands" THEN a.brand ELSE a.category

\* _get_or_create_id, first statement: the lookup by name.  A hit returns
\* its id (control goes on at pcNext); a miss goes on to the INSERT.
GetOrCreateSelect(p, table, pcHere, pcInsert, pcNext) ==
    /\ pc[p] = pcHere
    /\ tool[p] = "add_snack"
    /\ LET out == SelectIdByName(View(db, tx[p]), table, NameArg(args[p], table))
           found == GetOrCreateFound(out.cursor)
       IN Send(p, out,
               IF found THEN pcNext ELSE pcInsert,
               IF found THEN WithId(local[p], table, out.cursor.row[1].id) ELSE local[p])
    /\ UNCHANGED <<db, now, nOpen, tool, args, conn, opened, result, pre>>

\* Mutant: _get_or_create_id commits the row it inserted.
GetOrCreateInsertCommitting(p, table, pcHere, pcNext) ==
    /\ pc[p] = pcHere
    /\ tool[p] = "add_snack"
    /\ LET out == InsertNamed(View(db, tx[p]), table, NameArg(args[p], table))
       IN IF out.ok
          THEN /\ db' = Commit(db, ApplyStmt(tx[p], out))
               /\ tx' = [tx EXCEPT ![p] = NoTx]
               /\ cursor' = [cursor EXCEPT ![p] = out.cursor]
               /\ local' = [local EXCEPT ![p] = WithId(@, table, out.cursor.row[1].id)]
               /\ pc' = [pc EXCEPT ![p] = pcNext]
               /\ stmts' = [stmts EXCEPT ![p] = @ + 1]
               /\ UNCHANGED exc
          ELSE /\ Raise(p, StoreError(out))
               /\ local' = [local EXCEPT ![p].fault = "constraint"]
               /\ stmts' = [stmts EXCEPT ![p] = @ + 1]
               /\ UNCHANGED <<db, tx, cursor>>
    /\ UNCHANGED <<now, nOpen, tool, args, conn, opened, result, pre>>

\* _get_or_create_id, second statement: INSERT ... RETURNING id.
GetOrCreateInsert(p, table, pcHere, pcNext) ==
    /\ pc[p] = pcHere
    /\ tool[p] = "add_snack"
    /\ ~Waits(p, table, {"name"}, [name |-> NameArg(args[p], table)])
    /\ LET out == InsertNamed(View(db, tx[p]), table, NameArg(args[p], table))
       IN Send(p, out, pcNext,
               IF out.ok THEN WithId(local[p], table, out.cursor.row[1].id) ELSE local[p])
    /\ UNCHANGED <<db, now, nOpen, tool, args, conn, opened, result, pre>>

\* INSERT INTO snacks ... RETURNING *, with the ids _get_or_create_id returned.
AddSnackInsert(p) ==
    /\ pc[p] = "snack_insert"
    /\ tool[p] = "add_snack"
    /\ ~Waits(p, "snacks", {"brand_id", "name", "spec"},
              [brand_id |-> local[p].brand_id, name |-> args[p].name, spec |-> args[p].spec])
    /\ Send(p, InsertSnack(View(db, tx[p]), args[p].name, local[p].brand_id,
                           local[p].category_id, args[p].spec),
            "commit", local[p])
    /\ UNCHANGED <<db, now, nOpen, tool, args, conn, opened, result, pre>>

AddSnackResult(row, a) ==
    [status |-> "success", message |-> "", rows_affected |-> -1,
     data |-> <<[id |-> row.id, name |-> row.name, brand_id |-> row.brand_id,
                 category_id |-> row.category_id, spec |-> row.spec,
                 brand |-> a.brand, category |-> a.category]>>]

\* fetchone; without a row: rollback and an error result; with it: the one
\* conn.commit() of the call, then the success result.
AddSnackCommit(p) ==
    /\ pc[p] = "commit"
    /\ tool[p] = "add_snack"
    /\ IF cursor[p].row = <<>>
       THEN /\ tx' = [tx EXCEPT ![p] = Rollback(@)]
            /\ result' = [result EXCEPT ![p] =
                  [status |-> "error",
                   message |-> "Internal server error: Failed to retrieve the newly created snack.",
                   rows_affected |-> -1, data |-> <<>>]]
            /\ pc' = [pc EXCEPT ![p] = "finally"]
            /\ UNCHANGED <<db, exc, local>>
       ELSE CommitAndReturn(p, AddSnackResult(cursor[p].row[1], args[p]))
    /\ UNCHANGED <<now, nOpen, tool, args, conn, opened, stmts, cursor, pre>>

\* Mutant: a duplicate is taken for the snack being there already and
\* reported as a success.
AddSnackErrorResultDuplicateOk(e) ==
    [status |-> IF IsPsycopgError(e) /\ e.pgcode = "23505" THEN "success" ELSE "error",
     message |-> "A snack with the same brand, name, and spec likely already exists.", rows_affected |-> -1, data |-> <<>>]

AddSnackErrorResult(e) ==
    [status |-> "error",
     message |-> IF IsPsycopgError(e)
                 THEN IF e.pgcode = "23505"
                      THEN "A snack with the same brand, name, and spec likely already exists."
                      ELSE "Database error: " \o e.text
                 ELSE "An unexpected internal error occurred: " \o e.text,
     rows_affected |-> -1, data |-> <<>>]

\* `except psycopg2.Error` and `except Exception`: rollback and an error
\* result; a BaseException that is no Exception passes through.
AddSnackExcept(p) ==
    /\ pc[p] = "except"
    /\ tool[p] = "add_snack"
    /\ IF IsPsycopgError(exc[p]) \/ IsException(exc[p])
       THEN /\ tx' = [tx EXCEPT ![p] = IF conn[p] = "open" THEN Rollback(@) ELSE @]
            /\ result' = [result EXCEPT ![p] = AddSnackErrorResult(exc[p])]
            /\ exc' = [exc EXCEPT ![p] = NoExc]
       ELSE UNCHANGED <<tx, result, exc>>
    /\ pc' = [pc EXCEPT ![p] = "finally"]
    /\ UNCHANGED <<db, now, nOpen, tool, args, conn, opened, stmts, cursor, local, pre>>

add_snack(p, names) ==
    /\ \E name \in names, brand \in BrandNames, category \in CategoryNames,
          spec \in SnackSpecs :
         Begin(p, "add_snack",
               [name |-> name, brand |-> brand, category |-> category, spec |-> spec],
               "connect", NoResult, NoExc)

(***************************************************************************)
(* add_prices_batch.                                                       *)
(***************************************************************************)
\* A list of n price records of one shop and snack; record `badAt` (0: none) is
\* one the store rejects (it names no shop) or one whose start_date is no date.
BadKinds == {"shop", "date"}

PricesData(n, badAt, kind, shop_id, snack_id) ==
    [i \in 1..n |->
        [shop_id |-> IF i = badAt /\ kind = "shop" THEN 0 ELSE shop_id,
         snack_id |-> snack_id,
         price |-> CHOOSE x \in Amounts : TRUE,
         start_date |-> IF i = badAt /\ kind = "date" THEN Some("soon") ELSE None,
         end_date |-> None]]

\* data_to_insert: one tuple per record, its validity period constructed.
DataToInsert(prices_data, clock) ==
    [i \in 1..Len(prices_data) |->
        [shop_id |-> prices_data[i].shop_id, snack_id |-> prices_data[i].snack_id,
         price |-> prices_data[i].price,
         valid_period |-> ConstructDaterange(prices_data[i].start_date,
                                             prices_data[i].end_date, clock).text]]

Min(a, b) == IF a <= b THEN a ELSE b

\* The page of execute_values that starts after `sent` rows.
Page(data, sent) == SubSeq(data, sent + 1, Min(sent + PageSize, Len(data)))

\* Mutant: every page is committed as soon as it is sent.
BatchPageCommitting(p) ==
    /\ pc[p] = "page"
    /\ tool[p] = "add_prices_batch"
    /\ LET data == DataToInsert(args[p].prices_data, now)
           page == Page(data, local[p].page)
           sent == local[p].page + Len(page)
           out == InsertPrices(View(db, tx[p]), page, now, FALSE)
       IN IF out.ok
          THEN /\ db' = Commit(db, ApplyStmt(tx[p], out))
               /\ tx' = [tx EXCEPT ![p] = NoTx]
               /\ cursor' = [cursor EXCEPT ![p] = out.cursor]
               /\ local' = [local EXCEPT ![p].page = sent]
               /\ pc' = [pc EXCEPT ![p] = IF sent < Len(data) THEN "page" ELSE "commit"]
               /\ stmts' = [stmts EXCEPT ![p] = @ + 1]
               /\ UNCHANGED exc
          ELSE /\ Raise(p, StoreError(out))
               /\ local' = [local EXCEPT ![p].fault = "constraint"]
               /\ stmts' = [stmts EXCEPT ![p] = @ + 1]
               /\ UNCHANGED <<db, tx, cursor>>
    /\ UNCHANGED <<now, nOpen, tool, args, conn, opened, result, pre>>

\* execute_values: one INSERT per page of PageSize rows, all on the call's
\* cursor and in its transaction; the cursor shows the last statement.
BatchPage(p) ==
    /\ pc[p] = "page"
    /\ tool[p] = "add_prices_batch"
    /\ LET data == DataToInsert(args[p].prices_data, now)
           page == Page(data, local[p].page)
           sent == local[p].page + Len(page)
       IN Send(p, InsertPrices(View(db, tx[p]), page, now, FALSE),
               IF sent < Len(data) THEN "page" ELSE "commit",
               [local[p] EXCEPT !.page = sent])
    /\ UNCHANGED <<db, now, nOpen, tool, args, conn, opened, result, pre>>

BatchResult(cur) ==
    [status |-> "success",
     message |-> "Successfully added " \o ToString(cur.rowcount) \o " price records.",
     rows_affected |-> -1, data |-> <<>>]

\* conn.commit() and the success message with cursor.rowcount.
BatchCommit(p) ==
    /\ pc[p] = "commit"
    /\ tool[p] = "add_prices_batch"
    /\ CommitAndReturn(p, BatchResult(cursor[p]))
    /\ UNCHANGED <<now, nOpen, tool, args, conn, opened, stmts, cursor, pre>>

\* `except Error`: rollback and an error result; others pass through.
BatchExcept(p) ==
    /\ pc[p] = "except"
    /\ tool[p] = "add_prices_batch"
    /\ IF IsPsycopgError(exc[p])
       THEN /\ tx' = [tx EXCEPT ![p] = IF conn[p] = "open" THEN Rollback(@) ELSE @]
            /\ result' = [result EXCEPT ![p] =
                  [status |-> "error", message |-> "Batch add price failed: " \o exc[p].text,
                   rows_affected |-> -1, data |-> <<>>]]
            /\ exc' = [exc EXCEPT ![p] = NoExc]
       ELSE UNCHANGED <<tx, result, exc>>
    /\ pc' = [pc EXCEPT ![p] = "finally"]
    /\ UNCHANGED <<db, now, nOpen, tool, args, conn, opened, stmts, cursor, local, pre>>

\* The call: an empty list returns a warning at once; building data_to_insert
\* raises ValueError on a bad date, before any connection.
add_prices_batch(p, sizes, cap) ==
    \E n \in sizes, kind \in BadKinds :
      \E badAt \in {0, 1, n} :
        /\ Cardinality(db.prices) + n <= cap
        /\ badAt <= n
        /\ badAt = 0 => kind = "shop"
        /\ LET a == [prices_data |-> PricesData(n, badAt, kind, 1, 1)] IN
           IF n = 0
           THEN Begin(p, "add_prices_batch", a, "done",
                      [status |-> "warning", message |-> "No price data provided.",
                       rows_affected |-> -1, data |-> <<>>], NoExc)
           ELSE IF \E i \in 1..n :
                     ConstructDaterange(a.prices_data[i].start_date,
                                        a.prices_data[i].end_date, now).raised
           THEN Begin(p, "add_prices_batch", a, "done", NoResult, OtherError("ValueError"))
           ELSE Begin(p, "add_prices_batch", a, "connect", NoResult, NoExc)

(***************************************************************************)
(* Texts: case mapping, LIKE patterns, ordering.                           *)
(***************************************************************************)
Uppers == <<"A", "B", "C", "D", "E", "F", "G", "H", "I", "J", "K", "L", "M",
            "N", "O", "P", "Q", "R", "S", "T", "U", "V", "W", "X", "Y", "Z">>
Lowers == <<"a", "b", "c", "d", "e", "f", "g", "h", "i", "j", "k", "l", "m",
            "n", "o", "p", "q", "r", "s", "t", "u", "v", "w", "x", "y", "z">>

Lower(c) == IF \E i \in 1..26 : Uppers[i] = c
            THEN Lowers[CHOOSE i \in 1..26 : Uppers[i] = c] ELSE c
Upper(c) == IF \E i \in 1..26 : Lowers[i] = c
            THEN Uppers[CHOOSE i \in 1..26 : Lowers[i] = c] ELSE c

LowerText(t) == [i \in 1..Len(t) |-> Lower(t[i])]
\* str.upper()
UpperText(t) == [i \in 1..Len(t) |-> Upper(t[i])]

\* text LIKE pattern: % matches any run of characters, _ any one character.
RECURSIVE Like(_, _)
Like(t, pat) ==
    IF pat = <<>> THEN t = <<>>
    ELSE IF Head(pat) = "%"
         THEN Like(t, Tail(pat)) \/ (t # <<>> /\ Like(Tail(t), pat))
         ELSE /\ t # <<>>
              /\ Head(pat) = "_" \/ Head(pat) = Head(t)
              /\ Like(Tail(t), Tail(pat))

\* text ILIKE pattern
ILike(t, pat) == Like(LowerText(t), LowerText(pat))

\* f"%{value}%"
Wrapped(t) == <<"%">> \o t \o <<"%">>

\* The order of texts in ORDER BY: by character, digits before upper case
\* before lower case.
CharRank(c) ==
    IF \E i \in 1..26 : Uppers[i] = c THEN 100 + (CHOOSE i \in 1..26 : Uppers[i] = c)
    ELSE IF \E i \in 1..26 : Lowers[i] = c THEN 200 + (CHOOSE i \in 1..26 : Lowers[i] = c)
    ELSE 0

RECURSIVE TextLeq(_, _)
TextLeq(a, b) ==
    IF a = <<>> THEN TRUE
    ELSE IF b = <<>> THEN FALSE
    ELSE IF CharRank(Head(a)) # CharRank(Head(b)) THEN CharRank(Head(a)) < CharRank(Head(b))
    ELSE TextLeq(Tail(a), Tail(b))

\* The sequences that list every element of S once, each before those that
\* come after it in the order Leq.
SortedSeqs(S, Leq(_, _)) ==
    {q \in [1..Cardinality(S) -> S] :
        /\ \A i, j \in 1..Cardinality(S) : i # j => q[i] # q[j]
        /\ \A i, j \in 1..Cardinality(S) : i < j => Leq(q[i], q[j])}

(***************************************************************************)
(* The query tools and _execute_query.                                     *)
(***************************************************************************)
\* prices JOIN shops JOIN snacks JOIN brands JOIN categories
Joined(v) ==
    {[p |-> t[1], s |-> t[2], sn |-> t[3], b |-> t[4], c |-> t[5]] :
        t \in {u \in v.prices \X v.shops \X v.snacks \X v.brands \X v.categories :
                  /\ u[1].shop_id = u[2].id
                  /\ u[1].snack_id = u[3].id
                  /\ u[3].brand_id = u[4].id
                  /\ u[3].category_id = u[5].id}}

\* Mutant: shop_name is looked at first.
ShopClauseNameFirst(a, j) ==
    IF a.shop_name # None THEN ILike(j.s.name, Wrapped(a.shop_name[1]))
    ELSE IF a.shop_id # None THEN j.s.id = a.shop_id[1]
    ELSE TRUE

\* The shop clause of query_snack_prices: shop_id when given, else shop_name.
ShopClause(a, j) ==
    IF a.shop_id # None THEN j.s.id = a.shop_id[1]
    ELSE IF a.shop_name # None THEN ILike(j.s.name, Wrapped(a.shop_name[1]))
    ELSE TRUE

\* The WHERE clauses of query_snack_prices, joined by AND.
Where(a, j) ==
    /\ a.snack_name = None \/ ILike(j.sn.name, Wrapped(a.snack_name[1]))
    /\ a.min_price = None \/ j.p.price >= a.min_price[1]
    /\ a.max_price = None \/ j.p.price <= a.max_price[1]
    /\ a.category = None \/ ILike(j.c.name, Wrapped(a.category[1]))
    /\ a.spec = None \/ ILike(j.sn.spec, Wrapped(a.spec[1]))
    /\ ShopClause(a, j)
    /\ a.min_recorded_date = None \/ j.p.created_at >= a.min_recorded_date[1]
    /\ a.max_recorded_date = None \/ j.p.created_at <= a.max_recorded_date[1]

\* Mutant: an unknown order_by falls back to the price column.
SortColumnFallsBackToPrice(order_by) ==
    CASE order_by = "price" -> "price"
      [] order_by = "updated_at" -> "updated_at"
      [] order_by = "snack_name" -> "snack_name"
      [] OTHER -> "price"

\* sort_column_map.get(order_by, "p.updated_at")
SortColumn(order_by) ==
    CASE order_by = "price" -> "price"
      [] order_by = "updated_at" -> "updated_at"
      [] order_by = "snack_name" -> "snack_name"
      [] OTHER -> "updated_at"

\* "ASC" if order_direction.upper() == "ASC" else "DESC"
SortDirection(order_direction) ==
    IF UpperText(order_direction) = <<"A", "S", "C">> THEN "ASC" ELSE "DESC"

\* ORDER BY {sort_column} {sort_direction}: x may come before y.
OrderedBy(col, dir, x, y) ==
    LET leq(u, w) == CASE col = "price" -> u.p.price <= w.p.price
                       [] col = "updated_at" -> u.p.updated_at <= w.p.updated_at
                       [] col = "snack_name" -> TextLeq(u.sn.name, w.sn.name)
    IN IF dir = "ASC" THEN leq(x, y) ELSE leq(y, x)

\* The SELECT list of query_snack_prices.
Selected(j) ==
    [shop_name |-> j.s.name, shop_address |-> j.s.address, snack_name |-> j.sn.name,
     brand |-> j.b.name, category |-> j.c.name, spec |-> j.sn.spec, price |-> j.p.price,
     created_at |-> j.p.created_at, updated_at |-> j.p.updated_at, price_id |-> j.p.id]

\* Every answer the store may give to the statement of query_snack_prices:
\* the rows that pass WHERE, in an order ORDER BY allows, cut at LIMIT.
QuerySnackPrices(v, a) ==
    LET hits == {j \in Joined(v) : Where(a, j)}
        leq(x, y) == OrderedBy(SortColumn(a.order_by), SortDirection(a.order_direction), x, y)
    IN {[i \in 1..Min(a.limit, Cardinality(hits)) |-> Selected(q[i])] :
            q \in SortedSeqs(hits, leq)}

\* SELECT id, name, address, phone FROM shops ORDER BY name, address
GetShopList(v) ==
    LET leq(x, y) == IF x.name # y.name THEN TextLeq(x.name, y.name)
                     ELSE TextLeq(x.address, y.address)
    IN SortedSeqs(v.shops, leq)

\* SELECT ... FROM snacks JOIN brands JOIN categories ORDER BY sn.name
GetSnackList(v) ==
    LET rows == {[id |-> t[1].id, name |-> t[1].name, brand |-> t[2].name,
                  category |-> t[3].name, spec |-> t[1].spec] :
                    t \in {u \in v.snacks \X v.brands \X v.categories :
                              u[1].brand_id = u[2].id /\ u[1].category_id = u[3].id}}
        leq(x, y) == TextLeq(x.name, y.name)
    IN SortedSeqs(rows, leq)

\* SELECT c.name, COUNT(sn.id) FROM categories LEFT JOIN snacks GROUP BY c.name ORDER BY c.name
GetSnackCategories(v) ==
    LET rows == {[category |-> n,
                  count |-> Cardinality({sn \in v.snacks :
                               \E c \in v.categories : c.name = n /\ sn.category_id = c.id})] :
                    n \in {c.name : c \in v.categories}}
        leq(x, y) == TextLeq(x.category, y.category)
    IN SortedSeqs(rows, leq)

\* The answers to the statement of a query tool.
QueryStatement(v, tl, a) ==
    CASE tl = "query_snack_prices" -> QuerySnackPrices(v, a)
      [] tl = "get_shop_list" -> GetShopList(v)
      [] tl = "get_snack_list" -> GetSnackList(v)
      [] tl = "get_snack_categories" -> GetSnackCategories(v)

\* cursor.execute(sql, params); the cursor holds the rows for fetchall.
ExecuteQueryExecute(p) ==
    /\ pc[p] = "query"
    /\ tool[p] \in QueryTools
    /\ \E rows \in QueryStatement(View(db, tx[p]), tool[p], args[p]) :
         Send(p, StmtOk(EmptyTables, EmptyTables,
                        [description |-> TRUE, row |-> rows, rowcount |-> Len(rows)]),
              "fetch", local[p])
    /\ UNCHANGED <<db, now, nOpen, tool, args, conn, opened, result, pre>>

\* fetchall, the rows made plain values, and the return of the list.
ExecuteQueryFetch(p) ==
    /\ pc[p] = "fetch"
    /\ tool[p] \in QueryTools
    /\ result' = [result EXCEPT ![p] =
          [status |-> "rows", message |-> "", rows_affected |-> -1,
           data |-> [i \in 1..Len(cursor[p].row) |-> ProcessRow(cursor[p].row[i])]]]
    /\ pc' = [pc EXCEPT ![p] = "finally"]
    /\ UNCHANGED <<db, now, tx, nOpen, tool, args, conn, opened, stmts, cursor, local, exc, pre>>

\* `except Error`: a one-element list holding the error result; no rollback.
ExecuteQueryExcept(p) ==
    /\ pc[p] = "except"
    /\ tool[p] \in QueryTools
    /\ IF IsPsycopgError(exc[p])
       THEN /\ result' = [result EXCEPT ![p] =
                  [status |-> "error", message |-> "Query failed: " \o exc[p].text,
                   rows_affected |-> -1, data |-> <<>>]]
            /\ exc' = [exc EXCEPT ![p] = NoExc]
       ELSE UNCHANGED <<result, exc>>
    /\ pc' = [pc EXCEPT ![p] = "finally"]
    /\ UNCHANGED <<db, now, tx, nOpen, tool, args, conn, opened, stmts, cursor, local, pre>>

\* The arguments of query_snack_prices, with its defaults.
QueryDefaults ==
    [shop_name |-> None, shop_id |-> None, snack_name |-> None, min_price |-> None,
     max_price |-> None, category |-> None, spec |-> None, min_recorded_date |-> None,
     max_recorded_date |-> None, limit |-> 100, order_by |-> "updated_at",
     order_direction |-> <<"D", "E", "S", "C">>]

query_snack_prices(p, argsets) ==
    \E a \in argsets : Begin(p, "query_snack_prices", a, "connect", NoResult, NoExc)

get_shop_list(p) == Begin(p, "get_shop_list", NoArgs, "connect", NoResult, NoExc)

get_snack_list(p) == Begin(p, "get_snack_list", NoArgs, "connect", NoResult, NoExc)

get_snack_categories(p) == Begin(p, "get_snack_categories", NoArgs, "connect", NoResult, NoExc)

\* The queries of the runs of Spec.
FewQueries ==
    {QueryDefaults,
     [QueryDefaults EXCEPT !.shop_id = Some(1), !.shop_name = Some(<<"z">>)],
     [QueryDefaults EXCEPT !.shop_name = Some(<<"m">>), !.order_by = "price"]}

(***************************************************************************)
(* Specifications.                                                         *)
(***************************************************************************)
\* The rest of the state when no call is under way.
NoCalls ==
    /\ tx = [p \in Procs |-> NoTx]
    /\ nOpen = 0
    /\ pc = [p \in Procs |-> "idle"]
    /\ tool = [p \in Procs |-> "none"]
    /\ args = [p \in Procs |-> NoArgs]
    /\ conn = [p \in Procs |-> "none"]
    /\ opened = [p \in Procs |-> 0]
    /\ stmts = [p \in Procs |-> 0]
    /\ cursor = [p \in Procs |-> NoCursor]
    /\ local = [p \in Procs |-> NoLocal]
    /\ result = [p \in Procs |-> NoResult]
    /\ exc = [p \in Procs |-> NoExc]
    /\ pre = [p \in Procs |-> EmptyTables]

Init ==
    /\ db = EmptyTables
    /\ now = 1
    /\ NoCalls

\* The calls of every tool, one call at a time, on a store that starts empty.
Next ==
    \E p \in SeqProcs :
        \/ add_shop(p)
        \/ add_price(p)
        \/ delete_price(p)
        \/ batch_delete_prices(p)
        \/ delete_snack(p)
        \/ delete_shop(p)
        \/ add_snack(p, SnackNames)
        \/ add_prices_batch(p, 0..MaxBatch, MaxPrices)
        \/ GetOrCreateSelect(p, "brands", "brand_select", "brand_insert", "category_select")
        \/ GetOrCreateInsert(p, "brands", "brand_insert", "category_select")
        \/ GetOrCreateSelect(p, "categories", "category_select", "category_insert", "snack_insert")
        \/ GetOrCreateInsert(p, "categories", "category_insert", "snack_insert")
        \/ AddSnackInsert(p)
        \/ AddSnackCommit(p)
        \/ AddSnackExcept(p)
        \/ BatchPage(p)
        \/ BatchCommit(p)
        \/ BatchExcept(p)
        \/ query_snack_prices(p, FewQueries)
        \/ get_shop_list(p)
        \/ get_snack_list(p)
        \/ get_snack_categories(p)
        \/ ExecuteQueryExecute(p)
        \/ ExecuteQueryFetch(p)
        \/ ExecuteQueryExcept(p)
        \/ Connect(p)
        \/ ExecuteCrudExecute(p)
        \/ ExecuteCrudCommit(p)
        \/ ExecuteCrudExcept(p)
        \/ Finally(p)
        \/ Return(p)

Spec == Init /\ [][Next]_vars

\* A store with one shop and one snack, as add_shop and add_snack leave it.
BatchStore ==
    [shops |-> {[id |-> 1, name |-> <<"M", "a">>, address |-> <<"x">>]},
     brands |-> {[id |-> 1, name |-> <<"l", "a", "y">>]},
     categories |-> {[id |-> 1, name |-> <<"c">>]},
     snacks |-> {[id |-> 1, name |-> <<"c", "h">>, brand_id |-> 1, category_id |-> 1,
                  spec |-> <<"1", "g">>]},
     prices |-> {}]

\* Batches below, at and above one page of execute_values.
BatchSizes == {0, 1, 2, PageSize, PageSize + 1}
BatchCap == PageSize + MaxBatch

InitBatch ==
    /\ db = BatchStore
    /\ now = 1
    /\ NoCalls

\* add_prices_batch calls, one at a time.
NextBatch ==
    \E p \in SeqProcs :
        \/ add_prices_batch(p, BatchSizes, BatchCap)
        \/ Connect(p)
        \/ BatchPage(p)
        \/ BatchCommit(p)
        \/ BatchExcept(p)
        \/ Finally(p)
        \/ Return(p)

SpecBatch == InitBatch /\ [][NextBatch]_vars

\* A store with two shops and two snacks, and the price rows queries run on.
QueryShops ==
    {[id |-> 1, name |-> <<"M", "a">>, address |-> <<"x">>],
     [id |-> 2, name |-> <<"B", "o">>, address |-> <<"y">>]}
QuerySnacks ==
    {[id |-> 1, name |-> <<"c", "h">>, brand_id |-> 1, category_id |-> 1, spec |-> <<"1", "g">>],
     [id |-> 2, name |-> <<"A", "b">>, brand_id |-> 2, category_id |-> 1, spec |-> <<"1", "g">>]}
PricePool ==
    {[id |-> 1, shop_id |-> 1, snack_id |-> 1, price |-> 5, created_at |-> 1, updated_at |-> 1],
     [id |-> 2, shop_id |-> 2, snack_id |-> 1, price |-> 3, created_at |-> 1, updated_at |-> 1],
     [id |-> 3, shop_id |-> 1, snack_id |-> 2, price |-> 3, created_at |-> 2, updated_at |-> 2],
     [id |-> 4, shop_id |-> 2, snack_id |-> 2, price |-> 5, created_at |-> 2, updated_at |-> 2]}

QueryStores ==
    {[shops |-> QueryShops,
      brands |-> {[id |-> 1, name |-> <<"l", "a", "y">>], [id |-> 2, name |-> <<"o", "r">>]},
      categories |-> {[id |-> 1, name |-> <<"c">>]},
      snacks |-> QuerySnacks,
      prices |-> P] : P \in {S \in SUBSET PricePool : Cardinality(S) <= MaxQueryRows}}

\* The queries of the runs of SpecQuery.
ManyQueries ==
    {[QueryDefaults EXCEPT !.shop_id = sid, !.shop_name = sname, !.snack_name = sn,
                           !.limit = lim, !.order_by = o[1], !.order_direction = o[2]] :
        sid \in {None, Some(1), Some(2), Some(3)},
        sname \in {None, Some(<<"m">>), Some(<<"o">>), Some(<<"z">>)},
        sn \in {None, Some(<<"A">>)},
        lim \in {1, 100},
        o \in ({"price", "updated_at", "snack_name", "shop_name"}
                  \X {<<"A", "S", "C">>, <<"D", "E", "S", "C">>})
              \cup {<<"updated_at", <<"a", "s", "c">>>>, <<"updated_at", <<"u", "p">>>>,
                    <<"shop_name", <<"A", "s", "c">>>>}}

InitQuery ==
    /\ db \in QueryStores
    /\ now = 3
    /\ NoCalls

\* query_snack_prices calls, one at a time.
NextQuery ==
    \E p \in SeqProcs :
        \/ query_snack_prices(p, ManyQueries)
        \/ Connect(p)
        \/ ExecuteQueryExecute(p)
        \/ ExecuteQueryFetch(p)
        \/ ExecuteQueryExcept(p)
        \/ Finally(p)
        \/ Return(p)

SpecQuery == InitQuery /\ [][NextQuery]_vars

\* Stores for two callers of add_snack: empty, or holding one snack of the
\* brand "or"; neither holds the brand "lay".
RaceStores ==
    {EmptyTables,
     [EmptyTables EXCEPT
        !.brands = {[id |-> 1, name |-> <<"o", "r">>]},
        !.categories = {[id |-> 1, name |-> <<"c">>]},
        !.snacks = {[id |-> 1, name |-> <<"c", "h">>, brand_id |-> 1, category_id |-> 1,
                     spec |-> <<"1", "g">>]}]}

RaceSnackNames == {<<"c", "h">>, <<"A", "b">>}

InitRace ==
    /\ db \in RaceStores
    /\ now = 1
    /\ NoCalls

\* Two callers, one add_snack call each, their steps in any order.
NextRace ==
    \E p \in Procs :
        \/ add_snack(p, RaceSnackNames)
        \/ Connect(p)
        \/ GetOrCreateSelect(p, "brands", "brand_select", "brand_insert", "category_select")
        \/ GetOrCreateInsert(p, "brands", "brand_insert", "category_select")
        \/ GetOrCreateSelect(p, "categories", "category_select", "category_insert", "snack_insert")
        \/ GetOrCreateInsert(p, "categories", "category_insert", "snack_insert")
        \/ AddSnackInsert(p)
        \/ AddSnackCommit(p)
        \/ AddSnackExcept(p)
        \/ Finally(p)

SpecRace == InitRace /\ [][NextRace]_vars

(***************************************************************************)
(* Properties.                                                             *)
(***************************************************************************)
WriteTools == {"add_shop", "add_snack", "add_price", "add_prices_batch", "delete_price",
               "batch_delete_prices", "delete_snack", "delete_shop"}

Done(p) == pc[p] = "done"
Names(rows) == {r.name : r \in rows}

\* C1: when the store reports an error for a statement (or the commit) of a
\* write tool, the committed rows stay those of before the call; once the
\* except clause has run the transaction is rolled back, the result has
\* status "error" and a non-empty message, and no exception is in flight.
StoreErrorsAreReported ==
    \A p \in Procs :
        (tool[p] \in WriteTools /\ local[p].fault \in {"cancel", "constraint"}) =>
            /\ db = pre[p]
            /\ pc[p] \in {"except", "finally", "done"}
            /\ pc[p] \in {"finally", "done"} =>
                 /\ tx[p] = NoTx
                 /\ result[p].status = "error"
                 /\ result[p].message # ""
                 /\ exc[p] = NoExc

\* A call of add_snack that had inserted a brand row ended on a store error.
StoreErrorAfterWrite ==
    \E p \in Procs :
        /\ Done(p)
        /\ tool[p] = "add_snack"
        /\ local[p].fault \in {"cancel", "constraint"}
        /\ local[p].brand_id # 0
        /\ args[p].brand \notin Names(pre[p].brands)
        /\ result[p].status = "error"

TargetMissing(p) ==
    CASE tool[p] = "delete_price" -> args[p].price_id \notin Ids(pre[p].prices)
      [] tool[p] = "delete_snack" -> args[p].snack_id \notin Ids(pre[p].snacks)
      [] tool[p] = "delete_shop" -> args[p].shop_id \notin Ids(pre[p].shops)
      [] OTHER -> FALSE

\* C3: a targeted delete whose id matches no row returns a result with status
\* "warning", and the store is unchanged.
MissingTargetWarns ==
    \A p \in Procs :
        (Done(p) /\ TargetMissing(p) /\ local[p].fault = "none" /\ exc[p] = NoExc) =>
            result[p].status = "warning" /\ db = pre[p]

\* C4: a successful add_prices_batch of N records has inserted exactly N price
\* rows and reports the count N.
BatchReportsCount ==
    \A p \in Procs :
        (Done(p) /\ tool[p] = "add_prices_batch" /\ result[p].status = "success") =>
            LET n == Len(args[p].prices_data)
            IN /\ Cardinality(db.prices) = Cardinality(pre[p].prices) + n
               /\ result[p].message = "Successfully added " \o ToString(n) \o " price records."

\* The committed rows are those of before the call plus one price row per
\* record of the batch.
AllCommitted(p) ==
    LET new == db.prices \ pre[p].prices
        data == args[p].prices_data
    IN /\ pre[p].prices \subseteq db.prices
       /\ Cardinality(new) = Len(data)
       /\ \A r \in new : \E i \in 1..Len(data) :
            /\ r.shop_id = data[i].shop_id
            /\ r.snack_id = data[i].snack_id
            /\ r.price = data[i].price
       /\ [db EXCEPT !.prices = {}] = [pre[p] EXCEPT !.prices = {}]

\* C5: at every point of an add_prices_batch call, and so however it ends,
\* either no record of the batch is committed or every one is.
BatchAllOrNothing ==
    \A p \in Procs :
        tool[p] = "add_prices_batch" => (db = pre[p] \/ AllCommitted(p))

\* A batch failed after its first page had been sent, and nothing is committed.
BatchFailedAfterFirstPage ==
    \E p \in Procs :
        /\ Done(p)
        /\ tool[p] = "add_prices_batch"
        /\ local[p].page >= PageSize
        /\ local[p].fault # "none"
        /\ db = pre[p]

\* C6: add_snack changes the committed rows only by the one commit that
\* follows the snack insert: until the call has returned success the store is
\* as before the call, whatever brand or category row the call had inserted.
AddSnackOneTransaction ==
    \A p \in Procs :
        tool[p] = "add_snack" =>
            \/ db = pre[p]
            \/ /\ pc[p] \in {"finally", "done"}
               /\ result[p].status = "success"
               /\ Cardinality(db.snacks) = Cardinality(pre[p].snacks) + 1

\* An add_snack call failed after it had inserted a new brand row.
AddSnackFailedAfterBrand ==
    \E p \in Procs :
        /\ Done(p)
        /\ tool[p] = "add_snack"
        /\ local[p].brand_id # 0
        /\ args[p].brand \notin Names(pre[p].brands)
        /\ result[p].status # "success"
        /\ local[p].fault \in {"cancel", "other"}

\* The snack of the call was there, under its brand, when the call began.
SnackExisted(p) ==
    \E sn \in pre[p].snacks, b \in pre[p].brands :
        /\ b.name = args[p].brand
        /\ sn.brand_id = b.id
        /\ sn.name = args[p].name
        /\ sn.spec = args[p].spec

\* The rows of `table` a successful add_snack left: those of before, and one
\* more exactly when the name was not there.
OneRowPerName(p, table, name) ==
    /\ pre[p][table] \subseteq db[table]
    /\ Cardinality(db[table]) =
          Cardinality(pre[p][table]) + (IF name \in Names(pre[p][table]) THEN 0 ELSE 1)
    /\ name \in Names(db[table])

\* C7: there is at most one brand row and one category row per name; a
\* successful add_snack has added one snack row, which refers to the brand and
\* category rows of the names given, and one brand / category row exactly when
\* the name was absent; and the only constraint an add_snack call trips is the
\* snack's own, never that of a brand or category it looked up.
GetOrCreateReuses ==
    /\ \A table \in {"brands", "categories"} :
         \A r1, r2 \in db[table] : r1.name = r2.name => r1 = r2
    /\ \A p \in Procs :
         /\ (Done(p) /\ tool[p] = "add_snack" /\ result[p].status = "success") =>
              /\ OneRowPerName(p, "brands", args[p].brand)
              /\ OneRowPerName(p, "categories", args[p].category)
              /\ pre[p].snacks \subseteq db.snacks
              /\ Cardinality(db.snacks \ pre[p].snacks) = 1
              /\ \A sn \in db.snacks \ pre[p].snacks :
                   /\ \E b \in db.brands : b.id = sn.brand_id /\ b.name = args[p].brand
                   /\ \E c \in db.categories :
                        c.id = sn.category_id /\ c.name = args[p].category
         /\ (tool[p] = "add_snack" /\ local[p].fault = "constraint") => SnackExisted(p)

\* A successful add_snack named a brand that was already there.
BrandReused ==
    \E p \in Procs :
        /\ Done(p)
        /\ tool[p] = "add_snack"
        /\ result[p].status = "success"
        /\ args[p].brand \in Names(pre[p].brands)

\* C8: a call opens at most one connection, the connections open at the store
\* are those of the calls under way, and a call that has returned or raised
\* has no connection open.
ConnectionsScoped ==
    /\ nOpen = Cardinality({p \in Procs : conn[p] = "open"})
    /\ \A p \in Procs :
         /\ opened[p] <= 1
         /\ conn[p] = "open" => opened[p] = 1
         /\ pc[p] \in {"idle", "done"} => conn[p] # "open"
    /\ (\A p \in Procs : pc[p] \in {"idle", "done"}) => nOpen = 0

\* A call raised an exception to its caller after it had opened a connection.
RaisedWithConnectionClosed ==
    \E p \in Procs :
        Done(p) /\ exc[p] # NoExc /\ opened[p] = 1 /\ conn[p] = "closed"

\* The call is add_prices_batch or batch_delete_prices with an empty list.
EmptyList(p) ==
    \/ tool[p] = "add_prices_batch" /\ Len(args[p].prices_data) = 0
    \/ tool[p] = "batch_delete_prices" /\ args[p].price_ids = {}

\* C9: add_prices_batch and batch_delete_prices with an empty list return a
\* result with status "warning" at once: no connection opened, no statement
\* sent, the store unchanged.
EmptyListTouchesNothing ==
    \A p \in Procs :
        EmptyList(p) =>
            /\ pc[p] = "done"
            /\ result[p].status = "warning"
            /\ exc[p] = NoExc
            /\ opened[p] = 0
            /\ stmts[p] = 0
            /\ conn[p] = "none"
            /\ db = pre[p]

\* add_prices_batch was called with an empty list.
EmptyBatchCalled ==
    \E p \in Procs : Done(p) /\ tool[p] = "add_prices_batch" /\ args[p].prices_data = <<>>

\* C10: with shop_id and shop_name both given, the answers to
\* query_snack_prices are those of the same query with shop_name left out, and
\* the rows a call returns are one of them.
ShopIdTakesPrecedence ==
    \A p \in Procs :
        (tool[p] = "query_snack_prices" /\ args[p].shop_id # None /\ args[p].shop_name # None) =>
            LET v == View(db, tx[p])
                without == QuerySnackPrices(v, [args[p] EXCEPT !.shop_name = None])
            IN /\ QuerySnackPrices(v, args[p]) = without
               /\ (Done(p) /\ result[p].status = "rows") =>
                    \E rows \in without :
                        result[p].data = [i \in 1..Len(rows) |-> ProcessRow(rows[i])]

\* A query by shop_id returned rows although its shop_name names another shop.
QueriedByIdDespiteName ==
    \E p \in Procs :
        /\ Done(p)
        /\ tool[p] = "query_snack_prices"
        /\ args[p].shop_id = Some(1)
        /\ args[p].shop_name = Some(<<"o">>)
        /\ result[p].status = "rows"
        /\ Len(result[p].data) > 0

\* The column and direction C11 expects for the arguments `a`.
ExpectedColumn(a) ==
    IF a.order_by \in {"price", "updated_at", "snack_name"} THEN a.order_by ELSE "updated_at"
ExpectedAscending(a) == LowerText(a.order_direction) = <<"a", "s", "c">>

\* Returned row x may stand before row y in the expected order.
MayPrecede(a, x, y) ==
    LET leq(u, w) == CASE ExpectedColumn(a) = "price" -> u.price <= w.price
                       [] ExpectedColumn(a) = "updated_at" -> u.updated_at <= w.updated_at
                       [] ExpectedColumn(a) = "snack_name" -> TextLeq(u.snack_name, w.snack_name)
    IN IF ExpectedAscending(a) THEN leq(x, y) ELSE leq(y, x)

\* C11: the sort column of query_snack_prices is one of price, updated_at and
\* snack name, an order_by outside these three meaning updated_at; the
\* direction is ASC exactly when order_direction is ASC in any letter case and
\* DESC otherwise; the rows a call returns are in that order and are the first
\* of the matching rows in that order (so the defaults give update time
\* descending).
SortIsWhitelisted ==
    \A p \in Procs :
        tool[p] = "query_snack_prices" =>
            /\ SortColumn(args[p].order_by) = ExpectedColumn(args[p])
            /\ SortDirection(args[p].order_direction) =
                  (IF ExpectedAscending(args[p]) THEN "ASC" ELSE "DESC")
            /\ (Done(p) /\ result[p].status = "rows") =>
                 LET rows == cursor[p].row
                     n == Len(rows)
                     hits == {Selected(j) : j \in {k \in Joined(db) : Where(args[p], k)}}
                     rest == hits \ {rows[i] : i \in 1..n}
                 IN /\ n = Min(args[p].limit, Cardinality(hits))
                    /\ \A i \in 1..n : rows[i] \in hits
                    /\ \A i, j \in 1..n : i < j => MayPrecede(args[p], rows[i], rows[j])
                    /\ \A i \in 1..n : \A h \in rest : MayPrecede(args[p], rows[i], h)
                    /\ result[p].data = [i \in 1..n |-> ProcessRow(rows[i])]
                    /\ (args[p].order_by = QueryDefaults.order_by
                           /\ args[p].order_direction = QueryDefaults.order_direction) =>
                         \A i, j \in 1..n : i < j => rows[i].updated_at >= rows[j].updated_at

\* A query with an unknown order_by and the direction "Asc" returned two rows
\* of different update times, the older first.
UnknownOrderByReturnedByUpdateTime ==
    \E p \in Procs :
        /\ Done(p)
        /\ tool[p] = "query_snack_prices"
        /\ args[p].order_by = "shop_name"
        /\ args[p].order_direction = <<"A", "s", "c">>
        /\ result[p].status = "rows"
        /\ Len(cursor[p].row) = 2
        /\ cursor[p].row[1].updated_at < cursor[p].row[2].updated_at
        /\ cursor[p].row[1].price > cursor[p].row[2].price

\* Both callers have called add_snack with the same brand, and the brand was
\* in the store when neither call began.
SameAbsentBrand ==
    /\ \A p \in Procs : tool[p] = "add_snack" /\ args[p].brand \notin Names(pre[p].brands)
    /\ \A p, q \in Procs : args[p].brand = args[q].brand

Succeeded(p) == result[p].status = "success"

\* Nothing but the store's answers stood in the way of the call.
Undisturbed(p) == local[p].fault \in {"none", "constraint"}

\* The rows the two calls have left in `table`.
Left(table) == db[table] \ pre[1][table]

\* C12: there is never more than one brand or category row of a name.  When
\* two add_snack calls that name the same brand, absent when each began, have
\* both ended: the store holds one brand row of that name if a call succeeded
\* and none otherwise, one new snack row per successful call and no new row
\* that a successful call did not name; and if only the store's answers stood
\* in their way, at least one call succeeded and a call that did not returned
\* a result with status "error" and raised nothing.
RaceLeavesOneBrand ==
    /\ \A table \in {"brands", "categories"} :
         \A r1, r2 \in db[table] : r1.name = r2.name => r1 = r2
    /\ (SameAbsentBrand /\ \A p \in Procs : Done(p)) =>
         LET winners == {p \in Procs : Succeeded(p)}
             brand == args[1].brand
         IN /\ pre[1] = pre[2]
            /\ \A table \in {"brands", "categories", "snacks"} : pre[1][table] \subseteq db[table]
            /\ Cardinality({r \in db.brands : r.name = brand}) = (IF winners = {} THEN 0 ELSE 1)
            /\ Names(Left("brands")) \subseteq {brand}
            /\ Names(Left("categories")) \subseteq {args[p].category : p \in winners}
            /\ Cardinality(Left("snacks")) = Cardinality(winners)
            /\ \A sn \in Left("snacks") :
                 /\ \E p \in winners : sn.name = args[p].name /\ sn.spec = args[p].spec
                 /\ \E b \in db.brands : b.id = sn.brand_id /\ b.name = brand
                 /\ \E c \in db.categories : c.id = sn.category_id
            /\ (\A p \in Procs : Undisturbed(p)) =>
                 /\ winners # {}
                 /\ \A p \in Procs \ winners :
                      /\ result[p].status = "error"
                      /\ result[p].message # ""
                      /\ exc[p] = NoExc
                      /\ local[p].fault = "constraint"

\* Both calls looked the brand up before either had committed it; one
\* succeeded and the other's INSERT of the brand was refused.
LostTheRace ==
    /\ SameAbsentBrand
    /\ \A p \in Procs : Done(p) /\ Undisturbed(p)
    /\ \E p, q \in Procs :
         /\ Succeeded(p)
         /\ local[q].fault = "constraint"
         /\ local[q].brand_id = 0
         /\ stmts[q] = 2
         /\ result[q].status = "error"

====
